---- MODULE Spec2Model ----
(***************************************************************************)
(* Model of bin/merge_temperatures.py (FUDGE): merging processed GNDS      *)
(* files at different temperatures into one multi-temperature file.        *)
(*                                                                         *)
(* A Document (reactionSuite) is a record: identity fields, a styles suite *)
(* (sequence of Style records), and suites of reactions, orphanProducts,   *)
(* crossSectionSums and productions plus the applicationData mapping.  A   *)
(* Component is a set of Forms [label, data]; `data` names the file the    *)
(* Form was read from, so that a replaced Form is visible.                 *)
(***************************************************************************)
EXTENDS Integers, Sequences, FiniteSets, TLC

\* Largest number of files given on the command line (argparse nargs="+").
MaxFiles == 3

VARIABLES
    args,        \* args.gndsFiles: the files in command-line order
    pc,          \* position of the script
    err,         \* the exception the run ended with, "" while none was raised
    gndsFiles,   \* the files sorted by first temperature (line 173)
    base,        \* the accumulator (merge_reaction_suites: base)
    other,       \* the source being merged (merge_reaction_suites: other)
    toCopy,      \* the labels selected from `other` (line 116)
    idx,         \* index in gndsFiles of the source being merged
    previewed,   \* files GNDS_file.preview was called on, in order
    loaded,      \* files reactionSuite.read was called on, in order
    written      \* documents written by saveAllToFile, in order

vars == <<args, pc, err, gndsFiles, base, other, toCopy, idx, previewed, loaded, written>>

NoError == ""
NoLabel == ""

-----------------------------------------------------------------------------
(* The fudge library, as far as the script uses it.                        *)

\* The style kinds that carry a temperature and show up in temperatures().
ProcessedKinds ==
    {"heated", "griddedCrossSection", "heatedMultiGroup",
     "URR_probabilityTables", "SnElasticUpScatter"}

\* suite.keys(): the labels of a suite, a sequence of labelled records.
Labels(suite) == {suite[i].label : i \in DOMAIN suite}

\* `label in suite`
SuiteHas(suite, label) == label \in Labels(suite)

\* Position of the item with this label in the suite (0 when absent).
SuiteIndex(suite, label) ==
    IF SuiteHas(suite, label)
    THEN CHOOSE i \in DOMAIN suite : suite[i].label = label
    ELSE 0

\* suite.add(item): replaces the item of the same label, appends otherwise.
SuiteAdd(suite, item) ==
    IF SuiteHas(suite, item.label)
    THEN [suite EXCEPT ![SuiteIndex(suite, item.label)] = item]
    ELSE Append(suite, item)

\* component.keys()
Keys(comp) == {f.label : f \in comp}

Min(S) == CHOOSE x \in S : \A y \in S : x <= y

RECURSIVE SortedSeq(_)
\* sorted(S) for a set of numbers
SortedSeq(S) == IF S = {} THEN <<>> ELSE <<Min(S)>> \o SortedSeq(S \ {Min(S)})

\* The label a TemperatureInfo carries for one kind: the style of that kind
\* at that temperature (the last one in suite order), NoLabel when there is none.
KindLabelAt(styles, t, kind) ==
    LET at == {i \in DOMAIN styles : styles[i].kind = kind /\ styles[i].temperature = t}
    IN  IF at = {} THEN NoLabel
        ELSE styles[CHOOSE i \in at : \A j \in at : j <= i].label

\* styles.temperatures(): one TemperatureInfo per temperature, ascending.
temperatures(styles) ==
    LET ts == SortedSeq({styles[i].temperature :
                           i \in {j \in DOMAIN styles : styles[j].kind \in ProcessedKinds}})
    IN  [n \in DOMAIN ts |->
           [temperature           |-> ts[n],
            heated                |-> KindLabelAt(styles, ts[n], "heated"),
            griddedCrossSection   |-> KindLabelAt(styles, ts[n], "griddedCrossSection"),
            heatedMultiGroup      |-> KindLabelAt(styles, ts[n], "heatedMultiGroup"),
            URR_probabilityTables |-> KindLabelAt(styles, ts[n], "URR_probabilityTables"),
            SnElasticUpScatter    |-> KindLabelAt(styles, ts[n], "SnElasticUpScatter")]]

\* transportables.toXLink(): the link names the style owning the Transportables.
toXLink(style) == style.label

-----------------------------------------------------------------------------
(* The copy routines of the script.  A routine that can raise returns      *)
(* [err, dst]: the exception (NoError when none) and the destination as    *)
(* it stands when the routine is left; the destination is mutated in       *)
(* place, so what was copied before an exception stays copied.             *)

Ok(dst) == [err |-> NoError, dst |-> dst]

Raise(e, dst) == [err |-> e, dst |-> dst]

\* The processedStyle names of line 117 (heatedMultiGroup is listed twice).
processedStyles ==
    <<"heated", "griddedCrossSection", "heatedMultiGroup",
      "URR_probabilityTables", "heatedMultiGroup", "SnElasticUpScatter">>

\* Faulty variant: only the first temperature of the source is selected.
toCopyOf_FirstTemperatureOnly(other_styles) ==
    {temperatures(other_styles)[n][processedStyles[k]] :
        n \in (DOMAIN temperatures(other_styles)) \cap {1}, k \in DOMAIN processedStyles}

\* toCopy = set(getattr(temp, processedStyle) for ... for temp in other.styles.temperatures())
toCopyOf(other_styles) ==
    {temperatures(other_styles)[n][processedStyles[k]] :
        n \in DOMAIN temperatures(other_styles), k \in DOMAIN processedStyles}

\* Faulty variant: the check looks only at the accumulator's heated styles.
Collides_HeatedOnly(labels, base_styles) ==
    {l \in labels : \E i \in DOMAIN base_styles :
                       base_styles[i].label = l /\ base_styles[i].kind = "heated"}

\* The labels of toCopy that line 122 finds in base.styles.
Collides(labels, base_styles) == {l \in labels : SuiteHas(base_styles, l)}

\* Faulty variant: every Form of the source is copied, whatever its key.
copy_component_AllKeys(src_comp, dest_comp, labels) ==
    {f \in dest_comp : f.label \notin Keys(src_comp)} \cup src_comp

\* copy_component: dest_comp.add(src_comp[key]) for each key of src_comp in toCopy;
\* add() puts the Form in place of the destination's Form of the same label.
copy_component(src_comp, dest_comp, labels) ==
    {f \in dest_comp : f.label \notin (Keys(src_comp) \cap labels)}
        \cup {f \in src_comp : f.label \in labels}

\* Faulty variant: the computerCodes records are kept.
ClearDocumentation_DatesOnly(style) ==
    [style EXCEPT !.documentation.dates = {}]

\* style.documentation.dates.clear(); style.documentation.computerCodes.clear()
ClearDocumentation(style) ==
    [style EXCEPT !.documentation.dates = {}, !.documentation.computerCodes = {}]

\* Faulty variant: the link is set but the style keeps its own Transportables.
ReplaceTransportables_KeepContent(style, target) ==
    [style EXCEPT !.transportables.href = toXLink(target)]

\* style.transportables.clear(); style.transportables._Suite__href = target...toXLink()
ReplaceTransportables(style, target) ==
    [style EXCEPT !.transportables.items = {}, !.transportables.href = toXLink(target)]

RECURSIVE copy_styles_from(_, _, _, _)
\* The loop of copy_styles from position i of src_styles.  Returns [err, src, dst]:
\* the Style objects of the source are the ones cleared and then added.
copy_styles_from(i, src_styles, dest_styles, labels) ==
    IF i > Len(src_styles)
    THEN [err |-> NoError, src |-> src_styles, dst |-> dest_styles]
    ELSE IF src_styles[i].label \notin labels
    THEN copy_styles_from(i + 1, src_styles, dest_styles, labels)
    ELSE
      LET style == ClearDocumentation(src_styles[i])
      IN  IF style.kind # "heatedMultiGroup"
          THEN copy_styles_from(i + 1, [src_styles EXCEPT ![i] = style],
                                SuiteAdd(dest_styles, style), labels)
          ELSE
            LET cleared == [style EXCEPT !.transportables.items = {}]
                temps   == temperatures(dest_styles)
            IN  IF temps = <<>>
                THEN [err |-> "IndexError",
                      src |-> [src_styles EXCEPT ![i] = cleared], dst |-> dest_styles]
                ELSE IF ~SuiteHas(dest_styles, temps[1].heatedMultiGroup)
                THEN [err |-> "KeyError",
                      src |-> [src_styles EXCEPT ![i] = cleared], dst |-> dest_styles]
                ELSE
                  LET target == dest_styles[SuiteIndex(dest_styles, temps[1].heatedMultiGroup)]
                      linked == ReplaceTransportables(style, target)
                  IN  copy_styles_from(i + 1, [src_styles EXCEPT ![i] = linked],
                                       SuiteAdd(dest_styles, linked), labels)

\* copy_styles(src_styles, dest_styles, toCopy)
copy_styles(src_styles, dest_styles, labels) ==
    copy_styles_from(1, src_styles, dest_styles, labels)

RECURSIVE copy_product(_, _, _)
RECURSIVE copy_outputChannel(_, _, _, _)
RECURSIVE copy_delayedNeutrons(_, _, _, _)
RECURSIVE copy_products(_, _, _, _)

\* Lines 65-68: the four components of a product.
copy_product_components(src_product, dst_product, labels) ==
    [dst_product EXCEPT
        !.multiplicity = copy_component(src_product.multiplicity, @, labels),
        !.distribution = copy_component(src_product.distribution, @, labels),
        !.averageProductEnergy =
            copy_component(src_product.averageProductEnergy, @, labels),
        !.averageProductMomentum =
            copy_component(src_product.averageProductMomentum, @, labels)]

\* The product after the call of line 71 returned r.
WithOutputChannel(dst_product, r) ==
    [err |-> r.err, dst |-> [dst_product EXCEPT !.outputChannel = <<r.dst>>]]

\* Lines 70-71; outputChannel is <<>> for a product without one (None).
copy_product_outputChannel(src_product, dst_product, labels) ==
    IF src_product.outputChannel = <<>> THEN Ok(dst_product)
    ELSE IF dst_product.outputChannel = <<>> THEN Raise("AttributeError", dst_product)
    ELSE WithOutputChannel(dst_product,
            copy_outputChannel(src_product.outputChannel[1],
                               dst_product.outputChannel[1], labels, FALSE))

\* copy_product(src_product, dst_product, toCopy)
copy_product(src_product, dst_product, labels) ==
    copy_product_outputChannel(
        src_product, copy_product_components(src_product, dst_product, labels), labels)

\* The suite after its k-th item was copied into, r being what the copy returned.
PutItem(suite, k, r) == [err |-> r.err, dst |-> [suite EXCEPT ![k] = r.dst]]

\* The delayed neutrons after the product of the i-th was copied into.
PutDelayedNeutron(dns, i, r) == [err |-> r.err, dst |-> [dns EXCEPT ![i].product = r.dst]]

\* The zip loop of lines 78-81 goes on after its i-th pair, unless that raised.
copy_delayedNeutrons_next(i, src_dns, r, labels) ==
    IF r.err # NoError THEN r ELSE copy_delayedNeutrons(i + 1, src_dns, r.dst, labels)

\* The zip loop of lines 78-81 from position i: it ends with the shorter list.
copy_delayedNeutrons(i, src_dns, dst_dns, labels) ==
    IF i > Len(src_dns) \/ i > Len(dst_dns) THEN Ok(dst_dns)
    ELSE copy_delayedNeutrons_next(i, src_dns,
            PutDelayedNeutron(dst_dns, i,
                copy_product(src_dns[i].product, dst_dns[i].product, labels)),
            labels)

\* The loop of lines 87-89 goes on after its i-th product, unless that raised.
copy_products_next(i, src_products, r, labels) ==
    IF r.err # NoError THEN r ELSE copy_products(i + 1, src_products, r.dst, labels)

\* The loop of lines 87-89 from position i: products are matched by label.
copy_products(i, src_products, dst_products, labels) ==
    IF i > Len(src_products) THEN Ok(dst_products)
    ELSE IF ~SuiteHas(dst_products, src_products[i].label)
    THEN Raise("KeyError", dst_products)
    ELSE copy_products_next(i, src_products,
            PutItem(dst_products, SuiteIndex(dst_products, src_products[i].label),
                copy_product(src_products[i],
                             dst_products[SuiteIndex(dst_products, src_products[i].label)],
                             labels)),
            labels)

\* Line 75
copy_outputChannel_Q(src_channel, dst_channel, labels) ==
    [dst_channel EXCEPT !.Q = copy_component(src_channel.Q, @, labels)]

\* The channel after the zip loop returned r: lines 83-85 run unless it raised.
WithFissionFragmentData(src_channel, dst_channel, r, labels) ==
    IF r.err # NoError
    THEN Raise(r.err, [dst_channel EXCEPT !.fissionFragmentData.delayedNeutrons = r.dst])
    ELSE Ok([dst_channel EXCEPT
               !.fissionFragmentData.delayedNeutrons = r.dst,
               !.fissionFragmentData.fissionEnergyReleases =
                   copy_component(src_channel.fissionFragmentData.fissionEnergyReleases,
                                  @, labels)])

\* Lines 77-85
copy_outputChannel_fission(src_channel, dst_channel, labels, fission) ==
    IF ~fission THEN Ok(dst_channel)
    ELSE WithFissionFragmentData(src_channel, dst_channel,
            copy_delayedNeutrons(1, src_channel.fissionFragmentData.delayedNeutrons,
                                 dst_channel.fissionFragmentData.delayedNeutrons, labels),
            labels)

\* The channel after the loop of lines 87-89 returned r.
WithProducts(dst_channel, r) ==
    [err |-> r.err, dst |-> [dst_channel EXCEPT !.products = r.dst]]

\* Lines 87-89, reached unless the fission part (returning r) raised.
copy_outputChannel_products(src_channel, r, labels) ==
    IF r.err # NoError THEN r
    ELSE WithProducts(r.dst, copy_products(1, src_channel.products, r.dst.products, labels))

\* copy_outputChannel(src_channel, dst_channel, toCopy, fission)
copy_outputChannel(src_channel, dst_channel, labels, fission) ==
    copy_outputChannel_products(src_channel,
        copy_outputChannel_fission(src_channel,
            copy_outputChannel_Q(src_channel, dst_channel, labels), labels, fission),
        labels)

\* Lines 97-99
copy_reaction_components(src_reaction, dst_reaction, labels) ==
    [dst_reaction EXCEPT
        !.crossSection = copy_component(src_reaction.crossSection, @, labels),
        !.availableEnergy = copy_component(src_reaction.availableEnergy, @, labels),
        !.availableMomentum = copy_component(src_reaction.availableMomentum, @, labels)]

\* The reaction, orphan product or production after copy_outputChannel returned r.
WithChannel(dst_item, r) ==
    [err |-> r.err, dst |-> [dst_item EXCEPT !.outputChannel = r.dst]]

\* Lines 101-102
copy_reaction_outputChannel(src_reaction, dst_reaction, labels) ==
    WithChannel(dst_reaction,
        copy_outputChannel(src_reaction.outputChannel, dst_reaction.outputChannel, labels,
                           src_reaction.isFission))

\* copy_reaction(src_reaction, dst_reaction, toCopy)
copy_reaction(src_reaction, dst_reaction, labels) ==
    copy_reaction_outputChannel(
        src_reaction, copy_reaction_components(src_reaction, dst_reaction, labels), labels)

\* Line 134, line 139 and line 143: the crossSection of a top-level item.
copy_crossSection(src_item, dst_item, labels) ==
    [dst_item EXCEPT !.crossSection = copy_component(src_item.crossSection, @, labels)]

\* Line 135
copy_orphanProduct_outputChannel(src_item, dst_item, labels) ==
    WithChannel(dst_item,
        copy_outputChannel(src_item.outputChannel, dst_item.outputChannel, labels, FALSE))

\* Line 144
copy_production_Q(src_item, dst_item, labels) ==
    [dst_item EXCEPT !.outputChannel.Q = copy_component(src_item.outputChannel.Q, @, labels)]

\* What merge_reaction_suites copies for one item of a top-level suite
\* (lines 130, 134-135, 139, 143-144).
copy_item(kind, src_item, dst_item, labels) ==
    CASE kind = "reaction" -> copy_reaction(src_item, dst_item, labels)
      [] kind = "orphanProduct" ->
            copy_orphanProduct_outputChannel(
                src_item, copy_crossSection(src_item, dst_item, labels), labels)
      [] kind = "crossSectionSum" -> Ok(copy_crossSection(src_item, dst_item, labels))
      [] kind = "production" ->
            Ok(copy_production_Q(
                src_item, copy_crossSection(src_item, dst_item, labels), labels))

RECURSIVE copy_suite(_, _, _, _, _)

\* The loop goes on after its i-th item, unless that raised.
copy_suite_next(kind, i, src_suite, r, labels) ==
    IF r.err # NoError THEN r ELSE copy_suite(kind, i + 1, src_suite, r.dst, labels)

\* The loops of lines 128-144 from position i: each item of the source suite is
\* copied into the item of the same label of the accumulator's suite.
copy_suite(kind, i, src_suite, dst_suite, labels) ==
    IF i > Len(src_suite) THEN Ok(dst_suite)
    ELSE IF ~SuiteHas(dst_suite, src_suite[i].label)
    THEN Raise("KeyError", dst_suite)
    ELSE copy_suite_next(kind, i, src_suite,
            PutItem(dst_suite, SuiteIndex(dst_suite, src_suite[i].label),
                copy_item(kind, src_suite[i],
                          dst_suite[SuiteIndex(dst_suite, src_suite[i].label)], labels)),
            labels)

\* The (key, copy_method) pairs of lines 147-151.
applicationDataMethods ==
    << [key |-> "LLNL::multiGroupReactions",       copy_method |-> "copy_reaction"],
       [key |-> "LLNL::multiGroupDelayedNeutrons", copy_method |-> "copy_outputChannel"],
       [key |-> "LLNL::URR_probability_tables",    copy_method |-> "copy_component"] >>

\* copy_method(other_appData, base_appData, toCopy) of line 156.
copy_appData(copy_method, src_entry, dst_entry, labels) ==
    CASE copy_method = "copy_reaction" -> copy_reaction(src_entry, dst_entry, labels)
      [] copy_method = "copy_outputChannel" ->
            copy_outputChannel(src_entry, dst_entry, labels, FALSE)
      [] copy_method = "copy_component" ->
            Ok(copy_component(src_entry, dst_entry, labels))

RECURSIVE copy_appData_zip(_, _, _, _, _)

\* The zip loop of lines 153-156 goes on after its i-th pair, unless that raised.
copy_appData_zip_next(copy_method, i, src_entries, r, labels) ==
    IF r.err # NoError THEN r
    ELSE copy_appData_zip(copy_method, i + 1, src_entries, r.dst, labels)

\* The zip loop of lines 153-156 from position i: it ends with the shorter list.
copy_appData_zip(copy_method, i, src_entries, dst_entries, labels) ==
    IF i > Len(src_entries) \/ i > Len(dst_entries) THEN Ok(dst_entries)
    ELSE copy_appData_zip_next(copy_method, i, src_entries,
            PutItem(dst_entries, i,
                copy_appData(copy_method, src_entries[i], dst_entries[i], labels)),
            labels)

RECURSIVE copy_applicationData(_, _, _, _)

\* The applicationData after the zip loop over `key` returned r.
PutKey(appData, key, r) == [err |-> r.err, dst |-> [appData EXCEPT ![key] = r.dst]]

\* The loop of lines 147-156 goes on after its k-th pair, unless that raised.
copy_applicationData_next(k, src_appData, r, labels) ==
    IF r.err # NoError THEN r
    ELSE copy_applicationData(k + 1, src_appData, r.dst, labels)

\* The loop of lines 147-156 from the k-th (key, copy_method) pair.
copy_applicationData(k, src_appData, dst_appData, labels) ==
    IF k > Len(applicationDataMethods) THEN Ok(dst_appData)
    ELSE IF applicationDataMethods[k].key \notin DOMAIN dst_appData
    THEN copy_applicationData(k + 1, src_appData, dst_appData, labels)
    ELSE IF applicationDataMethods[k].key \notin DOMAIN src_appData
    THEN Raise("KeyError", dst_appData)
    ELSE copy_applicationData_next(k, src_appData,
            PutKey(dst_appData, applicationDataMethods[k].key,
                copy_appData_zip(applicationDataMethods[k].copy_method, 1,
                                 src_appData[applicationDataMethods[k].key],
                                 dst_appData[applicationDataMethods[k].key], labels)),
            labels)

-----------------------------------------------------------------------------
(* The files on disk.  Every Component of a file holds one Form per Style  *)
(* of the file.                                                            *)

Style(label, kind, temperature, file, items, href) ==
    [label |-> label, kind |-> kind, temperature |-> temperature,
     documentation  |-> [dates |-> {file}, computerCodes |-> {"processProtare"}],
     transportables |-> [items |-> items, href |-> href]]

Component(keys, file) == {[label |-> k, data |-> file] : k \in keys}

Product(label, keys, file, outputChannel) ==
    [label |-> label,
     multiplicity           |-> Component(keys, file),
     distribution           |-> Component(keys, file),
     averageProductEnergy   |-> Component(keys, file),
     averageProductMomentum |-> Component(keys, file),
     outputChannel          |-> outputChannel]

OutputChannel(keys, file, products, delayedNeutrons) ==
    [Q |-> Component(keys, file),
     products |-> products,
     fissionFragmentData |->
        [delayedNeutrons       |-> delayedNeutrons,
         fissionEnergyReleases |->
            IF delayedNeutrons = <<>> THEN {} ELSE Component(keys, file)]]

Reaction(label, keys, file, products, delayedNeutrons) ==
    [label |-> label,
     crossSection      |-> Component(keys, file),
     availableEnergy   |-> Component(keys, file),
     availableMomentum |-> Component(keys, file),
     outputChannel     |-> OutputChannel(keys, file, products, delayedNeutrons),
     isFission         |-> delayedNeutrons # <<>>]

\* A reactionSuite: elastic and fission reactions (plus capture when asked for),
\* nDelayed delayed-neutron products under fission, and, when nExtension > 0, the
\* LLNL applicationData with nExtension multi-group reactions.
Document(file, evaluation, styles, withCapture, nDelayed, nExtension) ==
    LET keys    == Labels(styles)
        n       == Product("n", keys, file, <<>>)
        photon  == Product("photon", keys, file, <<>>)
        residual == Product("residual", keys, file,
                            <<OutputChannel(keys, file, <<photon>>, <<>>)>>)
        delayed == [i \in 1..nDelayed |-> [product |-> n]]
        elastic == Reaction("n + target", keys, file, <<n, residual>>, <<>>)
        fission == Reaction("fission", keys, file, <<n, photon>>, delayed)
        capture == Reaction("capture", keys, file, <<photon>>, <<>>)
    IN  [projectile |-> "n", target |-> "U235", evaluation |-> evaluation,
         styles     |-> styles,
         reactions  |-> IF withCapture THEN <<elastic, fission, capture>>
                        ELSE <<elastic, fission>>,
         orphanProducts   |-> <<[label |-> "orphan",
                                 crossSection  |-> Component(keys, file),
                                 outputChannel |-> OutputChannel(keys, file, <<photon>>, <<>>)]>>,
         crossSectionSums |-> <<[label |-> "total", crossSection |-> Component(keys, file)]>>,
         productions      |-> <<[label |-> "H3 production",
                                 crossSection  |-> Component(keys, file),
                                 outputChannel |-> OutputChannel(keys, file, <<>>, <<>>)]>>,
         applicationData  |->
            [key \in (IF nExtension > 0
                      THEN {applicationDataMethods[k].key : k \in DOMAIN applicationDataMethods}
                      ELSE {}) |->
                CASE key = "LLNL::multiGroupReactions" ->
                        [i \in 1..nExtension |-> IF i = 1 THEN fission ELSE elastic]
                  [] key = "LLNL::multiGroupDelayedNeutrons" ->
                        <<OutputChannel(keys, file, <<n>>, <<>>)>>
                  [] key = "LLNL::URR_probability_tables" ->
                        <<Component(keys, file)>>]]

Evaluated(label, file) == Style(label, "evaluated", 0, file, {}, NoLabel)

Heated(label, temperature, file) == Style(label, "heated", temperature, file, {}, NoLabel)

\* A heated-multigroup style holding its own Transportables.
HeatedMultiGroup(label, temperature, file) ==
    Style(label, "heatedMultiGroup", temperature, file, {"n", "photon"}, NoLabel)

\* A heated-multigroup style whose Transportables are a link.
HeatedMultiGroupLinked(label, temperature, file, href) ==
    Style(label, "heatedMultiGroup", temperature, file, {}, href)

Files ==
    {"T0_T300.xml", "T600_T900.xml", "renamed_T1200.xml", "reusedLabel_T1500.xml",
     "otherEvaluation_T600.xml", "T100_T700.xml", "noMultiGroupAtT0.xml",
     "extraReaction_T1800.xml", "unprocessed.xml"}

FileSystem ==
    [file \in Files |->
      CASE file = "T0_T300.xml" ->
             Document(file, "ENDF/B-8.0",
               <<Evaluated("eval", file),
                 Heated("heated_000", 0, file), HeatedMultiGroup("MultiGroup_000", 0, file),
                 Heated("heated_001", 300, file),
                 HeatedMultiGroupLinked("MultiGroup_001", 300, file, "MultiGroup_000")>>,
               FALSE, 1, 1)
        [] file = "T600_T900.xml" ->
             Document(file, "ENDF/B-8.0",
               <<Evaluated("eval", file),
                 Heated("heated_002", 600, file), HeatedMultiGroup("MultiGroup_002", 600, file),
                 Style("URR_002", "URR_probabilityTables", 600, file, {}, NoLabel),
                 Heated("heated_003", 900, file),
                 HeatedMultiGroupLinked("MultiGroup_003", 900, file, "MultiGroup_002")>>,
               FALSE, 1, 1)
        [] file = "renamed_T1200.xml" ->
             Document(file, "ENDF/B-8.0",
               <<Evaluated("eval_1200", file),
                 Heated("heated_004", 1200, file),
                 HeatedMultiGroup("MultiGroup_004", 1200, file)>>,
               FALSE, 2, 2)
        [] file = "reusedLabel_T1500.xml" ->
             Document(file, "ENDF/B-8.0",
               <<Evaluated("eval", file),
                 Heated("heated_005", 1500, file),
                 HeatedMultiGroup("MultiGroup_002", 1500, file)>>,
               FALSE, 1, 1)
        [] file = "otherEvaluation_T600.xml" ->
             Document(file, "ENDF/B-7.1",
               <<Evaluated("eval", file), Heated("heated_006", 600, file)>>,
               FALSE, 1, 1)
        [] file = "T100_T700.xml" ->
             Document(file, "ENDF/B-8.0",
               <<Evaluated("eval", file),
                 Heated("heated_007", 100, file), Heated("heated_008", 700, file)>>,
               FALSE, 1, 0)
        [] file = "noMultiGroupAtT0.xml" ->
             Document(file, "ENDF/B-8.0",
               <<Evaluated("eval", file),
                 Heated("heated_010", 0, file),
                 Heated("heated_011", 300, file), HeatedMultiGroup("MultiGroup_011", 300, file),
                 Heated("heated_012", 450, file), HeatedMultiGroup("MultiGroup_012", 450, file)>>,
               FALSE, 1, 1)
        [] file = "extraReaction_T1800.xml" ->
             Document(file, "ENDF/B-8.0",
               <<Evaluated("eval", file), Heated("heated_013", 1800, file)>>,
               TRUE, 1, 1)
        [] file = "unprocessed.xml" ->
             Document(file, "ENDF/B-8.0", <<Evaluated("eval", file)>>, FALSE, 1, 1)]

\* The value of `other` before the first source is read.
NoDocument == Document("", "", <<>>, FALSE, 0, 0)

\* GNDS_file.preview(file): the identity fields and the styles of the file.
preview(file) ==
    [projectile |-> FileSystem[file].projectile, target |-> FileSystem[file].target,
     evaluation |-> FileSystem[file].evaluation, styles |-> FileSystem[file].styles]

\* reactionSuite.read(file)
read(file) == FileSystem[file]

-----------------------------------------------------------------------------
(* The script: __main__ (lines 161-185) and merge_reaction_suites.         *)

\* Lines 166-169: some identity field has more than one value over the previews.
IdentityMismatch(files) ==
    \E field \in {"projectile", "target", "evaluation"} :
        Cardinality({preview(files[i])[field] : i \in DOMAIN files}) # 1

\* f.styles.temperatures()[0].temperature of line 171
first_temperature(file) == temperatures(preview(file).styles)[1].temperature

\* Line 173 sorts (first temperature, preview, file name) tuples: two tuples of
\* equal first temperature are ordered by comparing the previews, objects that
\* have no order, and sorted() raises TypeError.
SortTie(files) ==
    \E i, j \in DOMAIN files :
        i # j /\ first_temperature(files[i]) = first_temperature(files[j])

\* Faulty variant: the files are left in command-line order.
sortedFiles_Unsorted(files) == files

\* gndsFiles of line 173, for files of distinct first temperatures.
sortedFiles(files) ==
    LET ts == SortedSeq({first_temperature(files[i]) : i \in DOMAIN files})
    IN  [n \in DOMAIN ts |->
           files[CHOOSE i \in DOMAIN files : first_temperature(files[i]) = ts[n]]]

RECURSIVE all_temps_from(_, _)
\* Faulty variant: only the first temperature of each file is listed.
all_temps_from_FirstOnly(i, files) ==
    IF i > Len(files) THEN <<>>
    ELSE <<first_temperature(files[i])>> \o all_temps_from(i + 1, files)

\* all_temps of line 176, from the i-th preview on.
all_temps_from(i, files) ==
    IF i > Len(files) THEN <<>>
    ELSE LET ts == temperatures(preview(files[i]).styles)
         IN  [n \in DOMAIN ts |-> ts[n].temperature] \o all_temps_from(i + 1, files)

all_temps(files) == all_temps_from(1, files)

RECURSIVE insert(_, _)
\* x put in its place in an ascending sequence
insert(x, seq) ==
    IF seq = <<>> THEN <<x>>
    ELSE IF x < Head(seq) THEN <<x>> \o seq
    ELSE <<Head(seq)>> \o insert(x, Tail(seq))

RECURSIVE sorted(_)
\* sorted(list) of line 177
sorted(seq) == IF seq = <<>> THEN <<>> ELSE insert(seq[Len(seq)], sorted(SubSeq(seq, 1, Len(seq) - 1)))

Init ==
    /\ \E n \in 1..MaxFiles : args \in [1..n -> Files]
    /\ pc = "main"
    /\ err = NoError
    /\ gndsFiles = <<>>
    /\ base = NoDocument
    /\ other = NoDocument
    /\ toCopy = {}
    /\ idx = 0
    /\ previewed = <<>>
    /\ loaded = <<>>
    /\ written = <<>>

\* Lines 162-180: previews, the sanity check, the sort and the order check.
Main ==
    /\ pc = "main"
    /\ previewed' = args
    /\ IF IdentityMismatch(args)
       THEN err' = "ValidationError" /\ pc' = "failed" /\ gndsFiles' = gndsFiles
       ELSE IF \E i \in DOMAIN args : temperatures(preview(args[i]).styles) = <<>>
       THEN err' = "IndexError" /\ pc' = "failed" /\ gndsFiles' = gndsFiles
       ELSE IF SortTie(args)
       THEN err' = "TypeError" /\ pc' = "failed" /\ gndsFiles' = gndsFiles
       ELSE /\ gndsFiles' = sortedFiles(args)
            /\ IF all_temps(gndsFiles') # sorted(all_temps(gndsFiles'))
               THEN err' = "ValidationError" /\ pc' = "failed"
               ELSE err' = err /\ pc' = "merge"
    /\ UNCHANGED <<args, base, other, toCopy, idx, loaded, written>>

\* Lines 109-110: base = reactionSuite.read(files[0])
ReadBase ==
    /\ pc = "merge"
    /\ base' = read(gndsFiles[1])
    /\ loaded' = Append(loaded, gndsFiles[1])
    /\ idx' = 2
    /\ pc' = "loop"
    /\ UNCHANGED <<args, err, gndsFiles, other, toCopy, previewed, written>>

\* Lines 112-113: the next file of files[1:] is read.
ReadOther ==
    /\ pc = "loop"
    /\ idx <= Len(gndsFiles)
    /\ other' = read(gndsFiles[idx])
    /\ loaded' = Append(loaded, gndsFiles[idx])
    /\ pc' = "select"
    /\ UNCHANGED <<args, err, gndsFiles, base, toCopy, idx, previewed, written>>

\* Lines 116-124: toCopy, and the check of its labels against base.styles.
SelectAndCheck ==
    /\ pc = "select"
    /\ toCopy' = toCopyOf(other.styles)
    /\ IF Collides(toCopy', base.styles) # {}
       THEN err' = "CollisionError" /\ pc' = "failed"
       ELSE err' = err /\ pc' = "styles"
    /\ UNCHANGED <<args, gndsFiles, base, other, idx, previewed, loaded, written>>

\* Line 126: copy_styles(other.styles, base.styles, toCopy)
CopyStyles ==
    /\ pc = "styles"
    /\ LET r == copy_styles(other.styles, base.styles, toCopy)
       IN  /\ other' = [other EXCEPT !.styles = r.src]
           /\ base' = [base EXCEPT !.styles = r.dst]
           /\ err' = r.err
           /\ pc' = IF r.err = NoError THEN "reactions" ELSE "failed"
    /\ UNCHANGED <<args, gndsFiles, toCopy, idx, previewed, loaded, written>>

\* Lines 128-130
CopyReactions ==
    /\ pc = "reactions"
    /\ LET r == copy_suite("reaction", 1, other.reactions, base.reactions, toCopy)
       IN  /\ base' = [base EXCEPT !.reactions = r.dst]
           /\ err' = r.err
           /\ pc' = IF r.err = NoError THEN "orphanProducts" ELSE "failed"
    /\ UNCHANGED <<args, gndsFiles, other, toCopy, idx, previewed, loaded, written>>

\* Lines 132-135
CopyOrphanProducts ==
    /\ pc = "orphanProducts"
    /\ LET r == copy_suite("orphanProduct", 1, other.orphanProducts,
                           base.orphanProducts, toCopy)
       IN  /\ base' = [base EXCEPT !.orphanProducts = r.dst]
           /\ err' = r.err
           /\ pc' = IF r.err = NoError THEN "sums" ELSE "failed"
    /\ UNCHANGED <<args, gndsFiles, other, toCopy, idx, previewed, loaded, written>>

\* Lines 137-139
CopySums ==
    /\ pc = "sums"
    /\ LET r == copy_suite("crossSectionSum", 1, other.crossSectionSums,
                           base.crossSectionSums, toCopy)
       IN  /\ base' = [base EXCEPT !.crossSectionSums = r.dst]
           /\ err' = r.err
           /\ pc' = IF r.err = NoError THEN "productions" ELSE "failed"
    /\ UNCHANGED <<args, gndsFiles, other, toCopy, idx, previewed, loaded, written>>

\* Lines 141-144
CopyProductions ==
    /\ pc = "productions"
    /\ LET r == copy_suite("production", 1, other.productions, base.productions, toCopy)
       IN  /\ base' = [base EXCEPT !.productions = r.dst]
           /\ err' = r.err
           /\ pc' = IF r.err = NoError THEN "applicationData" ELSE "failed"
    /\ UNCHANGED <<args, gndsFiles, other, toCopy, idx, previewed, loaded, written>>

\* Lines 146-156, and the loop of line 112 moves on.
CopyApplicationData ==
    /\ pc = "applicationData"
    /\ LET r == copy_applicationData(1, other.applicationData, base.applicationData, toCopy)
       IN  /\ base' = [base EXCEPT !.applicationData = r.dst]
           /\ err' = r.err
           /\ pc' = IF r.err = NoError THEN "loop" ELSE "failed"
           /\ idx' = IF r.err = NoError THEN idx + 1 ELSE idx
    /\ UNCHANGED <<args, gndsFiles, other, toCopy, previewed, loaded, written>>

\* Line 158: return base
Return ==
    /\ pc = "loop"
    /\ idx > Len(gndsFiles)
    /\ pc' = "merged"
    /\ UNCHANGED <<args, err, gndsFiles, base, other, toCopy, idx, previewed, loaded, written>>

\* Faulty variant: the accumulator is written as soon as the loop is reached.
SaveAllToFile_BeforeFold ==
    /\ pc = "loop"
    /\ written' = Append(written, base)
    /\ pc' = "done"
    /\ UNCHANGED <<args, err, gndsFiles, base, other, toCopy, idx, previewed, loaded>>

\* Lines 184-185: merged.saveAllToFile(args.outputFile, hybrid=args.hybrid)
SaveAllToFile ==
    /\ pc = "merged"
    /\ written' = Append(written, base)
    /\ pc' = "done"
    /\ UNCHANGED <<args, err, gndsFiles, base, other, toCopy, idx, previewed, loaded>>

Next ==
    \/ Main
    \/ ReadBase
    \/ ReadOther
    \/ SelectAndCheck
    \/ CopyStyles
    \/ CopyReactions
    \/ CopyOrphanProducts
    \/ CopySums
    \/ CopyProductions
    \/ CopyApplicationData
    \/ Return
    \/ SaveAllToFile

Spec == Init /\ [][Next]_vars

-----------------------------------------------------------------------------
(* Vocabulary of the properties.                                           *)

Succeeded == pc \in {"merged", "done"}

\* The input documents as they are on disk, in processing order.
Input(i) == FileSystem[gndsFiles[i]]

\* The labels of the styles of a document that are of a processed kind.
ProcessedLabels(doc) ==
    {doc.styles[i].label : i \in {j \in DOMAIN doc.styles : doc.styles[j].kind \in ProcessedKinds}}

\* The temperatures a document holds processed styles for.
TemperaturesOf(doc) ==
    {doc.styles[i].temperature :
        i \in {j \in DOMAIN doc.styles : doc.styles[j].kind \in ProcessedKinds}}

StyleOf(doc, label) == doc.styles[CHOOSE i \in DOMAIN doc.styles : doc.styles[i].label = label]

\* The styles of the accumulator that were copied from a non-base input.
CopiedLabels == Labels(base.styles) \ Labels(Input(1).styles)

PairwiseDisjointLabels(files) ==
    \A i, j \in DOMAIN files :
        i # j => Labels(FileSystem[files[i]].styles) \cap Labels(FileSystem[files[j]].styles) = {}

ComponentForms(path, comp) == {<<path, f>> : f \in comp}

RECURSIVE ProductForms(_, _)
RECURSIVE ChannelForms(_, _)

\* Every Form below a product, with the path of its Component.
ProductForms(path, product) ==
    ComponentForms(path \o <<"multiplicity">>, product.multiplicity)
      \cup ComponentForms(path \o <<"distribution">>, product.distribution)
      \cup ComponentForms(path \o <<"averageProductEnergy">>, product.averageProductEnergy)
      \cup ComponentForms(path \o <<"averageProductMomentum">>, product.averageProductMomentum)
      \cup (IF product.outputChannel = <<>> THEN {}
            ELSE ChannelForms(path \o <<"outputChannel">>, product.outputChannel[1]))

\* Every Form below an output channel, with the path of its Component.
ChannelForms(path, channel) ==
    ComponentForms(path \o <<"Q">>, channel.Q)
      \cup ComponentForms(path \o <<"fissionEnergyReleases">>,
                          channel.fissionFragmentData.fissionEnergyReleases)
      \cup UNION {ProductForms(path \o <<"products", channel.products[i].label>>,
                               channel.products[i]) : i \in DOMAIN channel.products}
      \cup UNION {ProductForms(path \o <<"delayedNeutrons", ToString(i)>>,
                               channel.fissionFragmentData.delayedNeutrons[i].product) :
                    i \in DOMAIN channel.fissionFragmentData.delayedNeutrons}

ReactionForms(path, reaction) ==
    ComponentForms(path \o <<"crossSection">>, reaction.crossSection)
      \cup ComponentForms(path \o <<"availableEnergy">>, reaction.availableEnergy)
      \cup ComponentForms(path \o <<"availableMomentum">>, reaction.availableMomentum)
      \cup ChannelForms(path \o <<"outputChannel">>, reaction.outputChannel)

ApplicationDataForms(key, entries) ==
    UNION {CASE key = "LLNL::multiGroupReactions" ->
                  ReactionForms(<<key, ToString(i)>>, entries[i])
             [] key = "LLNL::multiGroupDelayedNeutrons" ->
                  ChannelForms(<<key, ToString(i)>>, entries[i])
             [] key = "LLNL::URR_probability_tables" ->
                  ComponentForms(<<key, ToString(i)>>, entries[i]) : i \in DOMAIN entries}

\* The Reaction, Production and Sum data of a document: every Form of its
\* reactions, orphanProducts, sums and productions, with the path of its Component.
ReactionDataForms(doc) ==
    UNION {ReactionForms(<<"reactions", doc.reactions[i].label>>, doc.reactions[i]) :
              i \in DOMAIN doc.reactions}
      \cup UNION {ComponentForms(<<"orphanProducts", doc.orphanProducts[i].label, "crossSection">>,
                                 doc.orphanProducts[i].crossSection)
                    \cup ChannelForms(<<"orphanProducts", doc.orphanProducts[i].label>>,
                                      doc.orphanProducts[i].outputChannel) :
                    i \in DOMAIN doc.orphanProducts}
      \cup UNION {ComponentForms(<<"sums", doc.crossSectionSums[i].label>>,
                                 doc.crossSectionSums[i].crossSection) :
                    i \in DOMAIN doc.crossSectionSums}
      \cup UNION {ComponentForms(<<"productions", doc.productions[i].label, "crossSection">>,
                                 doc.productions[i].crossSection)
                    \cup ChannelForms(<<"productions", doc.productions[i].label>>,
                                      doc.productions[i].outputChannel) :
                    i \in DOMAIN doc.productions}

\* Every Form of a document, with the path of its Component.
DocumentForms(doc) ==
    ReactionDataForms(doc)
      \cup UNION {ApplicationDataForms(key, doc.applicationData[key]) :
                    key \in DOMAIN doc.applicationData}

\* "Each Form key in each Component is a Style label of that Document."
FormKeysAreStyleLabels(doc) ==
    \A pf \in DocumentForms(doc) : pf[2].label \in Labels(doc.styles)

-----------------------------------------------------------------------------
(* C1 *)

\* C1 as stated, for the runs that succeed: when the Style label sets of the inputs
\* are pairwise disjoint, the Style labels of the returned document are exactly the
\* union of the Style labels of all inputs.
C1_UnionOfAllLabels ==
    (Succeeded /\ PairwiseDisjointLabels(args)) =>
        Labels(base.styles) = UNION {Labels(Input(i).styles) : i \in DOMAIN gndsFiles}

\* C1: inputs of pairwise disjoint Style labels never end in a CollisionError, and
\* the Style labels of a returned document are exactly the labels of the base input
\* together with the labels of the processed kinds of the other inputs; a label of
\* another kind of a non-base input is not in the result.
C1_LabelsOfBaseAndProcessed ==
    /\ PairwiseDisjointLabels(args) => err # "CollisionError"
    /\ Succeeded =>
          Labels(base.styles) =
              Labels(Input(1).styles)
                \cup UNION {ProcessedLabels(Input(i)) : i \in 2..Len(gndsFiles)}

\* A merge of inputs of pairwise disjoint labels succeeded, and a non-base input
\* had a style that is not of a processed kind.
C1_Witness ==
    /\ pc = "done"
    /\ PairwiseDisjointLabels(args)
    /\ \E i \in 2..Len(gndsFiles) : Labels(Input(i).styles) # ProcessedLabels(Input(i))

-----------------------------------------------------------------------------
(* C2 *)

\* C2 as stated, for the runs that succeed or end in a CollisionError: when two of
\* the input documents share a Style label the merge does not succeed, and a run
\* that ends in a CollisionError has the Reaction, Production and Sum data of the
\* accumulator as the base input has them.
C2_AnySharedLabelCollides ==
    /\ ~PairwiseDisjointLabels(args) => ~Succeeded
    /\ err = "CollisionError" => ReactionDataForms(base) = ReactionDataForms(Input(1))

\* C2: when a label of a processed kind of a non-base input is a Style label of the
\* accumulator as that input is reached, and only then, the check ends the run in a
\* CollisionError; the check leaves the accumulator as the previous fold step left
\* it and the input as it was loaded: no Style and no Form of that input was copied.
C2_CollisionBeforeCopy ==
    [][pc = "select" =>
          /\ base' = base
          /\ other' = other
          /\ other = Input(idx)
          /\ (ProcessedLabels(other) \cap Labels(base.styles) # {})
                <=> (pc' = "failed" /\ err' = "CollisionError")]_vars

\* The third input collided with a label the second input had brought.
C2_Witness ==
    /\ err = "CollisionError"
    /\ idx = 3
    /\ ReactionDataForms(base) # ReactionDataForms(Input(1))

-----------------------------------------------------------------------------
(* C3 *)

\* The lists the script pairs positionally are of different lengths in src and dst.
PositionalListsDiffer(src, dst) ==
    \/ \E i \in DOMAIN src.reactions, j \in DOMAIN dst.reactions :
          /\ src.reactions[i].label = dst.reactions[j].label
          /\ src.reactions[i].isFission
          /\ Len(src.reactions[i].outputChannel.fissionFragmentData.delayedNeutrons)
               # Len(dst.reactions[j].outputChannel.fissionFragmentData.delayedNeutrons)
    \/ \E key \in DOMAIN dst.applicationData \cap DOMAIN src.applicationData :
          Len(src.applicationData[key]) # Len(dst.applicationData[key])

\* C3: a fold step over a source whose delayed-neutron products or
\* applicationData entries differ in number from the accumulator's does not
\* complete: the merge fails instead of pairing up to the shorter list.
C3_UnequalListsFail ==
    (pc \in {"loop", "merged", "done"} /\ idx > 2) => ~PositionalListsDiffer(other, base)

-----------------------------------------------------------------------------
(* C4 *)

\* C4: the output is written at most once and only after every input was read and
\* folded without an exception; a run that ended in an exception wrote nothing, a
\* run that is done wrote exactly once, the accumulator.
C4_OneWriteAfterTheFold ==
    /\ Len(written) <= 1
    /\ written # <<>> =>
          /\ pc = "done" /\ err = NoError
          /\ loaded = gndsFiles /\ idx = Len(gndsFiles) + 1
          /\ written = <<base>>
    /\ (pc = "failed" \/ err # NoError) => written = <<>>
    /\ pc = "done" => Len(written) = 1

\* A fold over three inputs was written.
C4_Witness == Len(written) = 1 /\ Len(gndsFiles) = 3

\* A run ended in an exception in the middle of the fold.
C4_WitnessFailure == pc = "failed" /\ idx >= 2 /\ written = <<>>

-----------------------------------------------------------------------------
(* C5 *)

\* Over the files in this order, some temperature is above a temperature of a later file.
OutOfOrder(files) ==
    \E i, j \in DOMAIN files :
        /\ i < j
        /\ \E t \in TemperaturesOf(FileSystem[files[i]]), u \in TemperaturesOf(FileSystem[files[j]]) :
              t > u

-----------------------------------------------------------------------------
(* C6 *)

\* C6: a source document is, while and after it is merged, as it was loaded.
C6_SourceUnchanged == idx >= 2 /\ idx <= Len(gndsFiles) /\ pc # "loop" => other = Input(idx)

-----------------------------------------------------------------------------
(* C7 *)

HeatedMultiGroupStyles(doc) ==
    {doc.styles[i] : i \in {j \in DOMAIN doc.styles : doc.styles[j].kind = "heatedMultiGroup"}}

\* The heated-multigroup styles of the lowest temperature that has one.
FirstHeatedMultiGroup(doc) ==
    {s \in HeatedMultiGroupStyles(doc) :
        \A u \in HeatedMultiGroupStyles(doc) : s.temperature <= u.temperature}

\* C7 as stated: after a successful merge every heated-multigroup Style of the
\* result but the first has no Transportables of its own and links to the first.
C7_AllButFirstLinked ==
    Succeeded =>
        \A s \in HeatedMultiGroupStyles(base) \ FirstHeatedMultiGroup(base) :
            /\ s.transportables.items = {}
            /\ \E f \in FirstHeatedMultiGroup(base) : s.transportables.href = f.label

\* C7: after a successful merge every heated-multigroup Style copied from a
\* non-base input has no Transportables of its own and links to the
\* heated-multigroup Style of the lowest temperature of the accumulator, which is
\* the lowest-temperature heated-multigroup Style of the result; the
\* heated-multigroup Styles of the base input are as they were loaded.  (So no
\* merge that copies a heated-multigroup Style succeeds when the lowest
\* temperature of the accumulator carries none.)
C7_CopiedAreLinked ==
    Succeeded =>
        \A s \in HeatedMultiGroupStyles(base) :
            IF s.label \in CopiedLabels
            THEN /\ s.transportables.items = {}
                 /\ \E f \in FirstHeatedMultiGroup(base) :
                       /\ s.transportables.href = f.label
                       /\ f.temperature = Min(TemperaturesOf(base))
                       /\ f \in HeatedMultiGroupStyles(Input(1))
            ELSE s \in HeatedMultiGroupStyles(Input(1))

\* A merge that copied heated-multigroup Styles from two inputs succeeded.
C7_Witness ==
    /\ Succeeded
    /\ Len(gndsFiles) = 3
    /\ \A i \in 2..3 : \E s \in HeatedMultiGroupStyles(base) :
          s.label \in CopiedLabels /\ s.label \in Labels(Input(i).styles)

-----------------------------------------------------------------------------
(* C8 *)

\* C8: after a successful merge every Style copied from a non-base input has no
\* dates and no computerCodes records, every Form that was copied is keyed by such
\* a Style, and every Style of the base input is in the result as it was loaded.
C8_ProvenanceOfCopiesCleared ==
    Succeeded =>
        /\ \A i \in DOMAIN base.styles :
              base.styles[i].label \in CopiedLabels =>
                  /\ base.styles[i].documentation.dates = {}
                  /\ base.styles[i].documentation.computerCodes = {}
        /\ \A pf \in DocumentForms(base) :
              pf[2].data # gndsFiles[1] => pf[2].label \in CopiedLabels
        /\ \A i \in DOMAIN Input(1).styles : base.styles[i] = Input(1).styles[i]

\* A merge succeeded with a copied Style whose source had provenance records.
C8_Witness ==
    /\ Succeeded
    /\ \E l \in CopiedLabels : \E i \in 2..Len(gndsFiles) :
          /\ l \in Labels(Input(i).styles)
          /\ StyleOf(Input(i), l).documentation.dates # {}
    /\ \E i \in DOMAIN Input(1).styles : Input(1).styles[i].documentation.dates # {}

-----------------------------------------------------------------------------
(* C9 *)

\* C9: whatever the command-line order, the processing order holds the same files
\* in strictly ascending order of first temperature (so it is the same for every
\* order of the same files), the accumulator is read from its first file, the
\* lowest, and the other files are read in that order.
C9_AscendingFirstTemperature ==
    gndsFiles # <<>> =>
        /\ Len(gndsFiles) = Len(args)
        /\ {gndsFiles[i] : i \in DOMAIN gndsFiles} = {args[i] : i \in DOMAIN args}
        /\ \A i, j \in DOMAIN gndsFiles :
              i < j => Min(TemperaturesOf(Input(i))) < Min(TemperaturesOf(Input(j)))
        /\ loaded = SubSeq(gndsFiles, 1, Len(loaded))
        /\ loaded # <<>> => base.styles[1].documentation.dates = {gndsFiles[1]}

\* A merge of three files given in another order than they were processed in.
C9_Witness ==
    /\ Succeeded
    /\ Len(args) = 3
    /\ args[1] = gndsFiles[3]
    /\ loaded = gndsFiles

-----------------------------------------------------------------------------
(* C10 *)

\* Every file on disk satisfies the invariant of the data model.
InputsWellFormed == \A f \in Files : FormKeysAreStyleLabels(FileSystem[f])

StylesKept(before, after) ==
    \A i \in DOMAIN before : i \in DOMAIN after /\ after[i] = before[i]

\* C10: with inputs whose Form keys are Style labels of their document, after
\* every step of the script (so after every completed fold step too) every Form of
\* the accumulator is keyed by a Style label of the accumulator, and no step
\* removes or replaces a Form or a Style the accumulator held before it.
C10_FormKeysStayStyleLabels ==
    [][(InputsWellFormed /\ loaded' # <<>>) =>
          /\ FormKeysAreStyleLabels(base')
          /\ loaded # <<>> =>
                /\ DocumentForms(base) \subseteq DocumentForms(base')
                /\ StylesKept(base.styles, base'.styles)]_vars

\* A fold step has completed and put Forms of the source into the accumulator.
C10_Witness ==
    /\ pc = "loop"
    /\ idx = 3
    /\ \E pf \in DocumentForms(base) : pf[2].data = gndsFiles[2]

====
